---- MODULE Spec2Model ----
(***************************************************************************)
(* PageRank engine of Ty700/PageRank: the Graph class of lib/graph.h and   *)
(* src/graph.cpp (the current revision, lines 209-499 of graph.cpp).       *)
(*                                                                         *)
(* The graph store (num_nodes, node_to_index, adj) is modelled as it is    *)
(* coded: vectors are sequences (index k of the code is position k+1).     *)
(* The doubles of the matrix builder and of the solver are modelled as     *)
(* exact signed rationals: a numerator of arbitrary size over a            *)
(* denominator 2^a * 3^b * 5^c, which is closed under the operations the   *)
(* code performs for graphs of at most six nodes (the denominators are     *)
(* products of 4, num_nodes and out-degrees).  Rounding is not modelled.   *)
(***************************************************************************)
EXTENDS Integers, Sequences, FiniteSets, TLC

(***************************************************************************)
(* Inputs of the model.                                                    *)
(***************************************************************************)
\* The labels callers pass to add_node / add_edge.
Labels == {"A", "B", "C"}

\* The environment adds at most MaxEdges distinct edges to a graph.
MaxEdges == 3

(***************************************************************************)
(* Natural numbers of arbitrary size: little-endian sequences of limbs in  *)
(* base Base, without leading zero limbs (zero is the empty sequence).     *)
(***************************************************************************)
Base == 10000

RECURSIVE BigOfNat(_)
BigOfNat(k) ==
    IF k = 0 THEN << >> ELSE << k % Base >> \o BigOfNat(k \div Base)

BigZero == << >>
BigOne == << 1 >>

RECURSIVE BigAddC(_, _, _)
BigAddC(a, b, c) ==
    IF a = << >> /\ b = << >>
    THEN (IF c = 0 THEN << >> ELSE << c >>)
    ELSE LET x == (IF a = << >> THEN 0 ELSE Head(a))
                  + (IF b = << >> THEN 0 ELSE Head(b)) + c
         IN  << x % Base >>
             \o BigAddC(IF a = << >> THEN a ELSE Tail(a),
                        IF b = << >> THEN b ELSE Tail(b), x \div Base)

BigAdd(a, b) == BigAddC(a, b, 0)

RECURSIVE BigStrip(_)
BigStrip(a) ==
    IF a = << >> THEN a
    ELSE IF a[Len(a)] = 0 THEN BigStrip(SubSeq(a, 1, Len(a) - 1))
    ELSE a

\* a - b for a >= b, limb by limb with a borrow.
RECURSIVE BigSubC(_, _, _)
BigSubC(a, b, br) ==
    IF a = << >> THEN << >>
    ELSE LET x == Head(a) - (IF b = << >> THEN 0 ELSE Head(b)) - br
         IN  << IF x < 0 THEN x + Base ELSE x >>
             \o BigSubC(Tail(a), IF b = << >> THEN b ELSE Tail(b),
                        IF x < 0 THEN 1 ELSE 0)

BigSub(a, b) == BigStrip(BigSubC(a, b, 0))

\* Comparison from the most significant limb down to limb k.
RECURSIVE BigLessFrom(_, _, _)
BigLessFrom(a, b, k) ==
    IF k = 0 THEN FALSE
    ELSE IF a[k] # b[k] THEN a[k] < b[k]
    ELSE BigLessFrom(a, b, k - 1)

BigLess(a, b) ==
    IF Len(a) # Len(b) THEN Len(a) < Len(b) ELSE BigLessFrom(a, b, Len(a))

\* a * m + c for a small m (m < 200000, so that a limb product fits).
RECURSIVE BigMulSmallC(_, _, _)
BigMulSmallC(a, m, c) ==
    IF a = << >> THEN BigOfNat(c)
    ELSE LET x == Head(a) * m + c
         IN  << x % Base >> \o BigMulSmallC(Tail(a), m, x \div Base)

BigMulSmall(a, m) == IF m = 0 THEN << >> ELSE BigMulSmallC(a, m, 0)

BigShift(a) == IF a = << >> THEN a ELSE << 0 >> \o a

\* Schoolbook product, one limb of b at a time.
RECURSIVE BigMulLimbs(_, _)
BigMulLimbs(a, b) ==
    IF a = << >> \/ b = << >> THEN << >>
    ELSE BigAdd(BigMulSmall(a, Head(b)), BigShift(BigMulLimbs(a, Tail(b))))

BigMul(a, b) ==
    IF Len(a) < Len(b) THEN BigMulLimbs(b, a) ELSE BigMulLimbs(a, b)

\* a * p^e by repeated small multiplications.
RECURSIVE BigMulPow(_, _, _)
BigMulPow(a, p, e) ==
    IF e = 0 THEN a
    ELSE IF e >= 4 THEN BigMulPow(BigMulSmall(a, p * p * p * p), p, e - 4)
    ELSE BigMulPow(BigMulSmall(a, p), p, e - 1)

(***************************************************************************)
(* Exact rationals standing for the code's doubles:                        *)
(*   [neg |-> sign, n |-> numerator, d |-> <<a, b, c>>]                     *)
(* is (+/-) n / (2^a * 3^b * 5^c).  Zero is never negative.                *)
(***************************************************************************)
Primes == << 2, 3, 5 >>

RECURSIVE ExpoOf(_, _)
ExpoOf(k, p) == IF k % p = 0 THEN 1 + ExpoOf(k \div p, p) ELSE 0

\* The denominator k (a product of 2s, 3s and 5s) as exponents.
DenOf(k) == [j \in 1..3 |-> ExpoOf(k, Primes[j])]

Max(x, y) == IF x >= y THEN x ELSE y

\* n scaled from denominator d to the multiple e of d.
ScaleTo(n, d, e) ==
    BigMulPow(BigMulPow(BigMulPow(n, 2, e[1] - d[1]), 3, e[2] - d[2]),
              5, e[3] - d[3])

DenLcm(d, e) == [j \in 1..3 |-> Max(d[j], e[j])]

\* The double p / q for naturals p and q > 0.
RatOf(p, q) == [neg |-> FALSE, n |-> BigOfNat(p), d |-> DenOf(q)]

RatZero == RatOf(0, 1)
RatOne == RatOf(1, 1)

RatNeg(x) == IF x.n = BigZero THEN x ELSE [x EXCEPT !.neg = ~x.neg]

RatAdd(x, y) ==
    IF x.n = BigZero THEN y
    ELSE IF y.n = BigZero THEN x
    ELSE LET e == DenLcm(x.d, y.d)
             a == ScaleTo(x.n, x.d, e)
             b == ScaleTo(y.n, y.d, e)
         IN  IF x.neg = y.neg THEN [neg |-> x.neg, n |-> BigAdd(a, b), d |-> e]
             ELSE IF a = b THEN [neg |-> FALSE, n |-> BigZero, d |-> e]
             ELSE IF BigLess(a, b) THEN [neg |-> y.neg, n |-> BigSub(b, a), d |-> e]
             ELSE [neg |-> x.neg, n |-> BigSub(a, b), d |-> e]

RatSub(x, y) == RatAdd(x, RatNeg(y))

RatMul(x, y) ==
    LET m == BigMul(x.n, y.n)
    IN  [neg |-> (m # BigZero) /\ (x.neg # y.neg), n |-> m,
         d |-> [j \in 1..3 |-> x.d[j] + y.d[j]]]

\* std::abs
RatAbs(x) == [x EXCEPT !.neg = FALSE]

\* x < y
RatLess(x, y) ==
    LET e == DenLcm(x.d, y.d)
        a == ScaleTo(x.n, x.d, e)
        b == ScaleTo(y.n, y.d, e)
    IN  IF x.neg /\ ~y.neg THEN TRUE
        ELSE IF ~x.neg /\ y.neg THEN FALSE
        ELSE IF x.neg THEN BigLess(b, a)
        ELSE BigLess(a, b)

\* x = y as numbers (the representation of a number is not unique).
RatEq(x, y) ==
    LET e == DenLcm(x.d, y.d)
    IN  /\ ScaleTo(x.n, x.d, e) = ScaleTo(y.n, y.d, e)
        /\ (x.neg = y.neg)

(***************************************************************************)
(* State.  The graph store (lib/graph.h:16-19), the locals of a running    *)
(* compute_pagerank (graph.cpp:454-460), the caller's position, the last   *)
(* call made and the value the last call returned.                         *)
(***************************************************************************)
VARIABLES
    num_nodes,       \* Graph::num_nodes
    node_to_index,   \* Graph::node_to_index, label -> index (0-based)
    adj,             \* Graph::adj, vector of rows of 0/1
    pc,              \* "idle": no call running; "loop": in the solver's for
                     \* loop; "break": the loop was left by its break
    google_matrix,   \* compute_pagerank's local google_matrix
    r_old,           \* compute_pagerank's local r_old
    r_new,           \* compute_pagerank's local r_new
    i,               \* the for loop's counter
    last_call,       \* the call made last and how its lookups went
    result           \* what the last call returned

graph == << num_nodes, node_to_index, adj >>
solver == << google_matrix, r_old, r_new, i >>
vars == << num_nodes, node_to_index, adj, pc, google_matrix, r_old, r_new, i,
           last_call, result >>

\* Convergence parameters (lib/graph.h:26-27) and the damping factor
\* (lib/graph.h:22).
MAX_ITER == 100
EPSILON == RatOf(1, 1000000)
ALPHA == RatOf(3, 4)

NoCall == [op |-> "none", a |-> "", b |-> "", found |-> FALSE]
Void == [kind |-> "void"]

\* std::vector::resize(n, fill)
Resize(v, n, fill) == [k \in 1..n |-> IF k <= Len(v) THEN v[k] ELSE fill]

RECURSIVE SumInts(_)
SumInts(v) == IF v = << >> THEN 0 ELSE Head(v) + SumInts(Tail(v))

\* The number of edges of the graph.
RECURSIVE EdgeCount(_)
EdgeCount(a) == IF a = << >> THEN 0 ELSE SumInts(Head(a)) + EdgeCount(Tail(a))

Init ==
    /\ num_nodes = 0
    /\ node_to_index = << >>
    /\ adj = << >>
    /\ pc = "idle"
    /\ google_matrix = << >>
    /\ r_old = << >>
    /\ r_new = << >>
    /\ i = 0
    /\ last_call = NoCall
    /\ result = Void

(***************************************************************************)
(* Graph store.                                                            *)
(***************************************************************************)
\* node_to_index.find(lbl) != node_to_index.end()
Known(lbl) == lbl \in DOMAIN node_to_index

\* Mutant: only the new row is sized; the old rows keep their length.
GrowAdj_new_row_only(a, n) == Append(a, [k \in 1..n |-> 0])

\* Mutant: the relation is rebuilt empty at the new size.
GrowAdj_clears(a, n) == [k \in 1..n |-> [m \in 1..n |-> 0]]

\* adj.resize(n); then every row resized to n, new cells 0.
GrowAdj(a, n) ==
    LET rows == Resize(a, n, << >>)
    IN  [k \in 1..n |-> Resize(rows[k], n, 0)]

\* Mutant: the lookup for an existing label is missing.
add_node_no_check(lbl) ==
    /\ pc = "idle"
    /\ last_call' = [op |-> "add_node", a |-> lbl, b |-> "", found |-> Known(lbl)]
    /\ result' = Void
    /\ node_to_index' = [l \in DOMAIN node_to_index \cup {lbl} |->
                            IF l = lbl THEN num_nodes ELSE node_to_index[l]]
    /\ num_nodes' = num_nodes + 1
    /\ adj' = [k \in 1..(num_nodes + 1) |->
                 Resize(Resize(adj, num_nodes + 1, << >>)[k], num_nodes + 1, 0)]
    /\ UNCHANGED << pc, solver >>

\* Mutant: the count is incremented before the index is assigned.
add_node_index_after_increment(lbl) ==
    /\ pc = "idle"
    /\ last_call' = [op |-> "add_node", a |-> lbl, b |-> "", found |-> Known(lbl)]
    /\ result' = Void
    /\ IF Known(lbl)
       THEN UNCHANGED graph
       ELSE /\ node_to_index' = node_to_index @@ (lbl :> num_nodes + 1)
            /\ num_nodes' = num_nodes + 1
            /\ adj' = [k \in 1..(num_nodes + 1) |->
                         Resize(Resize(adj, num_nodes + 1, << >>)[k], num_nodes + 1, 0)]
    /\ UNCHANGED << pc, solver >>

add_node(lbl) ==
    /\ pc = "idle"
    /\ last_call' = [op |-> "add_node", a |-> lbl, b |-> "", found |-> Known(lbl)]
    /\ result' = Void
    /\ IF Known(lbl)
       THEN UNCHANGED graph
       ELSE /\ node_to_index' = node_to_index @@ (lbl :> num_nodes)
            /\ num_nodes' = num_nodes + 1
            /\ adj' = GrowAdj(adj, num_nodes + 1)
    /\ UNCHANGED << pc, solver >>

\* Mutant: the edge is stored from dest to src.
SetEdge_swapped(a, src_index, dest_index) ==
    [a EXCEPT ![dest_index + 1][src_index + 1] = 1]

\* Mutant: the entry is flipped, so adding an edge twice removes it.
SetEdge_toggles(a, src_index, dest_index) ==
    [a EXCEPT ![src_index + 1][dest_index + 1] = 1 - @]

\* adj[src_index][dest_index] = 1 (indices 0-based in the code).
SetEdge(a, src_index, dest_index) ==
    [a EXCEPT ![src_index + 1][dest_index + 1] = 1]

\* Mutant: an unknown endpoint is added to the graph as a node.
add_edge_creates(src, dest) ==
    /\ pc = "idle"
    /\ last_call' = [op |-> "add_edge", a |-> src, b |-> dest,
                     found |-> Known(src) /\ Known(dest)]
    /\ result' = Void
    /\ IF ~Known(src) \/ ~Known(dest)
       THEN LET lbl == IF Known(src) THEN dest ELSE src
            IN  /\ node_to_index' = node_to_index @@ (lbl :> num_nodes)
                /\ num_nodes' = num_nodes + 1
                /\ adj' = [k \in 1..(num_nodes + 1) |->
                             Resize(Resize(adj, num_nodes + 1, << >>)[k],
                                    num_nodes + 1, 0)]
       ELSE /\ adj' = [adj EXCEPT ![node_to_index[src] + 1][node_to_index[dest] + 1] = 1]
            /\ UNCHANGED << num_nodes, node_to_index >>
    /\ UNCHANGED << pc, solver >>

add_edge(src, dest) ==
    /\ pc = "idle"
    /\ last_call' = [op |-> "add_edge", a |-> src, b |-> dest,
                     found |-> Known(src) /\ Known(dest)]
    /\ result' = Void
    /\ IF ~Known(src) \/ ~Known(dest)
       THEN UNCHANGED graph
       ELSE /\ adj' = SetEdge(adj, node_to_index[src], node_to_index[dest])
            /\ UNCHANGED << num_nodes, node_to_index >>
    /\ UNCHANGED << pc, solver >>

(***************************************************************************)
(* Matrix builder.                                                         *)
(***************************************************************************)
\* Mutant: an edge from a node to itself is not counted.
compute_out_degrees_skips_self ==
    [row \in 1..num_nodes |->
        SumInts([col \in 1..num_nodes |-> IF col = row THEN 0 ELSE adj[row][col]])]

compute_out_degrees == [row \in 1..num_nodes |-> SumInts(adj[row])]

\* Mutant: a node without outgoing edges gets no uniform row.
transition_value_no_dangling(out_degrees, row, col) ==
    IF out_degrees[row] = 0
    THEN RatZero
    ELSE RatOf(adj[row][col], out_degrees[row])

\* The value the loop body computes for (row, col); graph.cpp:292-299.
transition_value(out_degrees, row, col) ==
    IF out_degrees[row] = 0
    THEN RatOf(1, num_nodes)
    ELSE RatOf(adj[row][col], out_degrees[row])

\* Mutant: the value for (row, col) is stored in transition_matrix[row][col].
build_transition_matrix_untransposed ==
    LET out_degrees == compute_out_degrees
    IN  [x \in 1..num_nodes |->
            [y \in 1..num_nodes |-> transition_value(out_degrees, x, y)]]

\* The loop stores the value for (row, col) in transition_matrix[col][row].
build_transition_matrix ==
    LET out_degrees == compute_out_degrees
    IN  [x \in 1..num_nodes |->
            [y \in 1..num_nodes |-> transition_value(out_degrees, y, x)]]

\* Mutant: the division by the number of nodes is missing.
build_teleportation_matrix_ones ==
    [row \in 1..num_nodes |-> [col \in 1..num_nodes |-> RatOne]]

build_teleportation_matrix ==
    [row \in 1..num_nodes |-> [col \in 1..num_nodes |-> RatOf(1, num_nodes)]]

\* Mutant: the transition matrix is read transposed when it is blended.
build_google_matrix_transposes ==
    LET transition_matrix == build_transition_matrix
        teleportation_matrix == build_teleportation_matrix
    IN  [row \in 1..num_nodes |-> [col \in 1..num_nodes |->
            RatAdd(RatMul(ALPHA, transition_matrix[col][row]),
                   RatMul(RatSub(RatOne, ALPHA), teleportation_matrix[row][col]))]]

build_google_matrix ==
    LET transition_matrix == build_transition_matrix
        teleportation_matrix == build_teleportation_matrix
    IN  [row \in 1..num_nodes |-> [col \in 1..num_nodes |->
            RatAdd(RatMul(ALPHA, transition_matrix[row][col]),
                   RatMul(RatSub(RatOne, ALPHA), teleportation_matrix[row][col]))]]

(***************************************************************************)
(* Power-iteration solver.                                                 *)
(***************************************************************************)
\* sum of abs(r_old[k] - r_new[k]) over the first n entries, in index order.
RECURSIVE DifferenceUpTo(_, _, _)
DifferenceUpTo(ro, rn, n) ==
    IF n = 0 THEN RatZero
    ELSE RatAdd(DifferenceUpTo(ro, rn, n - 1), RatAbs(RatSub(ro[n], rn[n])))

\* Mutant: the differences are summed without std::abs.
RECURSIVE SignedDifferenceUpTo(_, _, _)
SignedDifferenceUpTo(ro, rn, n) ==
    IF n = 0 THEN RatZero
    ELSE RatAdd(SignedDifferenceUpTo(ro, rn, n - 1), RatSub(ro[n], rn[n]))

compute_difference_signed(ro, rn) == SignedDifferenceUpTo(ro, rn, num_nodes)

compute_difference(ro, rn) == DifferenceUpTo(ro, rn, num_nodes)

\* r_new[row] after the inner loop has added the first n columns.
RECURSIVE RowTimes(_, _, _, _)
RowTimes(g, v, row, n) ==
    IF n = 0 THEN RatZero
    ELSE RatAdd(RowTimes(g, v, row, n - 1), RatMul(g[row][n], v[n]))

\* Mutant: the inner loop reads the matrix by column, g[col][row].
RECURSIVE ColumnTimes(_, _, _, _)
ColumnTimes(g, v, row, n) ==
    IF n = 0 THEN RatZero
    ELSE RatAdd(ColumnTimes(g, v, row, n - 1), RatMul(g[n][row], v[n]))

NextVector_transposed(g, v) ==
    [row \in 1..num_nodes |-> ColumnTimes(g, v, row, num_nodes)]

\* The vector the body of the for loop leaves in r_new (graph.cpp:462-469).
NextVector(g, v) == [row \in 1..num_nodes |-> RowTimes(g, v, row, num_nodes)]

\* The solver's test for leaving the loop (graph.cpp:471).
Converged(ro, rn) == RatLess(compute_difference(ro, rn), EPSILON)

\* Mutant: the uniform row of a node without outgoing edges is written into
\* the adjacency matrix itself.
compute_pagerank_begin_patches_adj ==
    /\ pc = "idle"
    /\ pc' = "loop"
    /\ google_matrix' = build_google_matrix
    /\ r_old' = [k \in 1..num_nodes |-> RatOf(1, num_nodes)]
    /\ r_new' = [k \in 1..num_nodes |-> RatZero]
    /\ i' = 0
    /\ last_call' = [op |-> "compute_pagerank", a |-> "", b |-> "", found |-> FALSE]
    /\ result' = Void
    /\ adj' = [row \in 1..num_nodes |->
                 IF SumInts(adj[row]) = 0
                 THEN [col \in 1..num_nodes |-> 1]
                 ELSE adj[row]]
    /\ UNCHANGED << num_nodes, node_to_index >>

\* Mutant: the iteration starts from the vector the previous call returned.
compute_pagerank_begin_warm_start ==
    /\ pc = "idle"
    /\ pc' = "loop"
    /\ google_matrix' = build_google_matrix
    /\ r_old' = IF result # Void /\ num_nodes > 0
                THEN result.pagerank_vector
                ELSE [k \in 1..num_nodes |-> RatOf(1, num_nodes)]
    /\ r_new' = [k \in 1..num_nodes |-> RatZero]
    /\ i' = 0
    /\ last_call' = [op |-> "compute_pagerank", a |-> "", b |-> "", found |-> FALSE]
    /\ result' = Void
    /\ UNCHANGED graph

\* The entry of compute_pagerank up to its for loop (graph.cpp:454-458).
compute_pagerank_begin ==
    /\ pc = "idle"
    /\ pc' = "loop"
    /\ google_matrix' = build_google_matrix
    /\ r_old' = [k \in 1..num_nodes |-> RatOf(1, num_nodes)]
    /\ r_new' = [k \in 1..num_nodes |-> RatZero]
    /\ i' = 0
    /\ last_call' = [op |-> "compute_pagerank", a |-> "", b |-> "", found |-> FALSE]
    /\ result' = Void
    /\ UNCHANGED graph

\* Mutant: the comparison of the for loop's condition is reversed.
LoopCondition_flipped(k) == k > MAX_ITER

\* The for loop's condition (graph.cpp:460).
LoopCondition(k) == k < MAX_ITER

\* Mutant: r_old is overwritten with r_new before the two are compared.
compute_pagerank_iterate_copies_first ==
    /\ pc = "loop"
    /\ LoopCondition(i)
    /\ LET rn == NextVector(google_matrix, r_old)
       IN  /\ r_new' = rn
           /\ r_old' = rn
           /\ IF Converged(rn, rn)
              THEN /\ pc' = "break"
                   /\ UNCHANGED i
              ELSE /\ i' = i + 1
                   /\ pc' = pc
    /\ UNCHANGED << graph, google_matrix, last_call, result >>

\* One pass through the body of the for loop (graph.cpp:460-479).
compute_pagerank_iterate ==
    /\ pc = "loop"
    /\ LoopCondition(i)
    /\ LET rn == NextVector(google_matrix, r_old)
       IN  /\ r_new' = rn
           /\ IF Converged(r_old, rn)
              THEN /\ pc' = "break"
                   /\ UNCHANGED << r_old, i >>
              ELSE /\ r_old' = rn
                   /\ i' = i + 1
                   /\ pc' = pc
    /\ UNCHANGED << graph, google_matrix, last_call, result >>

\* The for loop is over: by its break, or by its condition i < MAX_ITER.
LoopExited == pc = "break" \/ (pc = "loop" /\ ~LoopCondition(i))

\* The number of passes through the loop body when the loop is over: i + 1
\* after the break (graph.cpp:474 prints it), i when the condition failed.
iterations == IF pc = "break" THEN i + 1 ELSE i

\* struct PageRankResult (lib/graph.h:7-11) as the bindings expose it:
\* the scores and the number of iterations performed.
PageRankResult(scores, count) ==
    [kind |-> "PageRankResult", pagerank_vector |-> scores, iterations |-> count]

\* return r_new (graph.cpp:498); the locals are destroyed.
compute_pagerank_return ==
    /\ LoopExited
    /\ result' = PageRankResult(r_new, iterations)
    /\ pc' = "idle"
    /\ google_matrix' = << >>
    /\ r_old' = << >>
    /\ r_new' = << >>
    /\ i' = 0
    /\ UNCHANGED << graph, last_call >>

\* The environment adds an edge that is not there only below MaxEdges.
EdgeAllowed(src, dest) ==
    IF Known(src) /\ Known(dest)
    THEN IF adj[node_to_index[src] + 1][node_to_index[dest] + 1] = 1
         THEN TRUE
         ELSE EdgeCount(adj) < MaxEdges
    ELSE TRUE

Next ==
    \/ \E lbl \in Labels : add_node(lbl)
    \/ \E src \in Labels, dest \in Labels :
          EdgeAllowed(src, dest) /\ add_edge(src, dest)
    \/ compute_pagerank_begin
    \/ compute_pagerank_iterate
    \/ compute_pagerank_return

Spec == Init /\ [][Next]_vars

(***************************************************************************)
(* The star scenario: a client that builds the graph A -> B, A -> C,       *)
(* A -> D, A -> E over five nodes, in any order, and computes its ranks    *)
(* once the graph is complete.                                             *)
(***************************************************************************)
StarLabels == {"A", "B", "C", "D", "E"}
StarLeaves == StarLabels \ {"A"}

HasEdge(src, dest) ==
    IF Known(src) /\ Known(dest)
    THEN adj[node_to_index[src] + 1][node_to_index[dest] + 1] = 1
    ELSE FALSE

IsStar ==
    /\ DOMAIN node_to_index = StarLabels
    /\ \A leaf \in StarLeaves : HasEdge("A", leaf)
    /\ EdgeCount(adj) = 4

StarNext ==
    \/ \E lbl \in StarLabels : add_node(lbl)
    \/ \E leaf \in StarLeaves : add_edge("A", leaf)
    \/ IsStar /\ compute_pagerank_begin
    \/ compute_pagerank_iterate
    \/ compute_pagerank_return

SpecStar == Init /\ [][StarNext]_vars

(***************************************************************************)
(* Properties.                                                             *)
(***************************************************************************)
\* The step just taken was a call of add_node / add_edge.
CalledAddNode == last_call'.op = "add_node"
CalledAddEdge == last_call'.op = "add_edge"

\* A call of compute_pagerank has returned and its value is at hand.
Returned == result.kind = "PageRankResult"

RECURSIVE SumVector(_)
SumVector(v) == IF v = << >> THEN RatZero ELSE RatAdd(Head(v), SumVector(Tail(v)))

\* v is a probability distribution: no entry below 0, total mass 1.
IsDistribution(v) ==
    /\ \A k \in DOMAIN v : ~RatLess(v[k], RatZero)
    /\ RatEq(SumVector(v), RatOne)

\* C1: for a graph of at least one node, the vector the solver starts from,
\* the vector each iteration computes and the vector compute_pagerank
\* returns are probability distributions (entries >= 0, sum exactly 1).
C1_ScoresAreDistribution ==
    /\ (pc \in {"loop", "break"} /\ num_nodes >= 1) =>
          /\ IsDistribution(r_old)
          /\ (i > 0 \/ pc = "break") => IsDistribution(r_new)
    /\ (Returned /\ num_nodes >= 1) => IsDistribution(result.pagerank_vector)

C1_Witness ==
    /\ Returned
    /\ num_nodes = 3
    /\ EdgeCount(adj) = 2
    /\ result.iterations > 5
    /\ \E k \in 1..3 : ~RatEq(result.pagerank_vector[k], RatOf(1, 3))

\* C2: compute_pagerank on a graph of zero nodes builds no matrix, enters no
\* iteration and returns no normal result.
C2_EmptyGraphRejected ==
    (num_nodes = 0 /\ last_call.op = "compute_pagerank") =>
        (pc = "idle" /\ ~Returned)

\* C3: add_node of a label that is already present changes neither the node
\* count, nor the label-to-index mapping, nor any adjacency entry.
C3_AddNodeIdempotent ==
    [][(CalledAddNode /\ last_call'.a \in DOMAIN node_to_index) =>
          /\ num_nodes' = num_nodes
          /\ node_to_index' = node_to_index
          /\ adj' = adj]_vars

C3_Witness ==
    /\ last_call.op = "add_node"
    /\ last_call.found
    /\ num_nodes >= 2
    /\ EdgeCount(adj) >= 1

\* C4: add_edge with an unknown source or destination label changes nothing
\* of the graph, creates no node, and returns normally.
C4_UnknownEdgeIsNoOp ==
    [][(CalledAddEdge /\ ~({last_call'.a, last_call'.b} \subseteq DOMAIN node_to_index)) =>
          /\ num_nodes' = num_nodes
          /\ node_to_index' = node_to_index
          /\ adj' = adj
          /\ pc' = "idle"
          /\ result' = Void]_vars

C4_Witness ==
    /\ last_call.op = "add_edge"
    /\ ~last_call.found
    /\ last_call.a \in DOMAIN node_to_index
    /\ last_call.b \notin DOMAIN node_to_index
    /\ EdgeCount(adj) >= 1

\* C5: add_edge with both labels known sets adj[index(src)][index(dst)] to 1
\* and changes no other entry, nor the node count, nor the mapping; when
\* the edge was already there nothing changes.
C5_AddEdgeSetsOneEntry ==
    [][(CalledAddEdge /\ {last_call'.a, last_call'.b} \subseteq DOMAIN node_to_index) =>
          LET s == node_to_index[last_call'.a] + 1
              d == node_to_index[last_call'.b] + 1
          IN  /\ num_nodes' = num_nodes
              /\ node_to_index' = node_to_index
              /\ Len(adj') = Len(adj)
              /\ \A r \in 1..Len(adj) :
                    /\ Len(adj'[r]) = Len(adj[r])
                    /\ \A c \in 1..Len(adj[r]) :
                          adj'[r][c] = IF r = s /\ c = d THEN 1 ELSE adj[r][c]
              /\ (adj[s][d] = 1 => adj' = adj)]_vars

C5_Witness ==
    /\ last_call.op = "add_edge"
    /\ last_call.found
    /\ last_call.a # last_call.b
    /\ num_nodes = 3
    /\ EdgeCount(adj) = 2
    /\ adj[node_to_index[last_call.a] + 1][node_to_index[last_call.b] + 1] = 1
    /\ adj[node_to_index[last_call.b] + 1][node_to_index[last_call.a] + 1] = 0

\* The mapping is a bijection between the known labels and 0..num_nodes-1.
IndexBijection ==
    /\ Cardinality(DOMAIN node_to_index) = num_nodes
    /\ \A l \in DOMAIN node_to_index : node_to_index[l] \in 0..(num_nodes - 1)
    /\ \A k \in 0..(num_nodes - 1) : \E l \in DOMAIN node_to_index : node_to_index[l] = k

\* C6: add_node of a new label gives it the index equal to the node count
\* before the call and raises the count by exactly 1, every other label
\* keeps its index and no other call touches the mapping; so the mapping
\* is always a bijection between the known labels and 0..N-1 in the order
\* of first insertion.
C6_DenseInsertionOrderIndex ==
    [][/\ IndexBijection'
       /\ (CalledAddNode /\ last_call'.a \notin DOMAIN node_to_index) =>
             /\ num_nodes' = num_nodes + 1
             /\ DOMAIN node_to_index' = DOMAIN node_to_index \cup {last_call'.a}
             /\ node_to_index'[last_call'.a] = num_nodes
             /\ \A l \in DOMAIN node_to_index : node_to_index'[l] = node_to_index[l]
       /\ ~(CalledAddNode /\ last_call'.a \notin DOMAIN node_to_index) =>
             /\ num_nodes' = num_nodes
             /\ node_to_index' = node_to_index]_vars

C6_Witness ==
    /\ last_call.op = "add_node"
    /\ ~last_call.found
    /\ num_nodes = 3
    /\ node_to_index[last_call.a] = 2

\* C7: the adjacency relation has exactly num_nodes rows of exactly
\* num_nodes columns each, and every entry is 0 or 1.
C7_AdjacencyIsSquare ==
    /\ Len(adj) = num_nodes
    /\ \A r \in 1..Len(adj) :
          /\ Len(adj[r]) = num_nodes
          /\ \A c \in 1..Len(adj[r]) : adj[r][c] \in {0, 1}

C7_Witness ==
    /\ num_nodes = 3
    /\ EdgeCount(adj) = 3
    /\ last_call.op = "add_edge"

\* C8: add_node of a new label keeps every adjacency entry between old
\* nodes, and the new node's row and column hold only 0.
C8_AddNodePreservesEdges ==
    [][(CalledAddNode /\ last_call'.a \notin DOMAIN node_to_index) =>
          LET n == num_nodes + 1
          IN  /\ \A r \in 1..num_nodes : \A c \in 1..num_nodes :
                    adj'[r][c] = adj[r][c]
              /\ \A k \in 1..n : adj'[n][k] = 0 /\ adj'[k][n] = 0]_vars

C8_Witness ==
    /\ last_call.op = "add_node"
    /\ ~last_call.found
    /\ num_nodes = 3
    /\ EdgeCount(adj) >= 2

\* C9: for a graph of at least one node the solver makes at least 1 and at
\* most MAX_ITER passes through its loop; a loop that ends without its
\* break ends after exactly MAX_ITER passes with the vector of the last
\* pass in r_new (every pass that does not break copies it to r_old), and
\* compute_pagerank then returns normally, as it does after a break.
C9_BoundedIterations ==
    /\ pc \in {"loop", "break"} =>
          /\ i \in 0..MAX_ITER
          /\ pc = "break" => i < MAX_ITER
    /\ (LoopExited /\ num_nodes >= 1) => iterations \in 1..MAX_ITER
    /\ (LoopExited /\ pc = "loop" /\ num_nodes >= 1) =>
          /\ iterations = MAX_ITER
          /\ r_new = r_old
    /\ (last_call.op = "compute_pagerank" /\ pc = "idle") =>
          /\ Returned
          /\ num_nodes >= 1 => result.iterations \in 1..MAX_ITER

C9_Witness ==
    /\ Returned
    /\ num_nodes >= 2
    /\ result.iterations >= 40
    /\ result.iterations < MAX_ITER

\* The L1 distance of two vectors of the same length.
RECURSIVE L1Distance(_, _)
L1Distance(v, w) ==
    IF v = << >> THEN RatZero
    ELSE LET x == RatSub(Head(w), Head(v))
         IN  RatAdd(IF RatLess(x, RatZero) THEN RatNeg(x) ELSE x,
                    L1Distance(Tail(v), Tail(w)))

\* C10: a pass through the loop whose new vector is at L1 distance < EPSILON
\* from the previous vector ends the loop, and compute_pagerank then
\* returns that pass's vector and counts that pass (k = i + 1 passes, the
\* first i of which did not end the loop); a pass at distance >= EPSILON
\* does not end the loop: the new vector becomes the previous one and the
\* next pass follows.
C10_StopsAtFirstConvergedPass ==
    [][/\ (pc = "loop" /\ pc' # "idle") =>
             IF RatLess(L1Distance(r_old, r_new'), EPSILON)
             THEN pc' = "break" /\ i' = i
             ELSE pc' = "loop" /\ i' = i + 1 /\ r_old' = r_new'
       /\ (pc = "break" /\ pc' = "idle") =>
             /\ result'.kind = "PageRankResult"
             /\ result'.pagerank_vector = r_new
             /\ result'.iterations = i + 1]_vars

C10_Witness ==
    /\ pc = "break"
    /\ num_nodes = 2
    /\ i >= 3
    /\ RatLess(L1Distance(r_old, r_new), EPSILON)
    /\ ~RatEq(r_old[1], r_new[1])

\* C11: compute_pagerank changes nothing of the graph: from its entry to its
\* return the node count, the mapping and the adjacency matrix stay as they
\* are, and a step that changes any of them is a call of add_node or
\* add_edge.
C11_ComputeLeavesGraph ==
    [][/\ (pc # "idle" \/ pc' # "idle") => UNCHANGED graph
       /\ (graph' # graph) => (CalledAddNode \/ CalledAddEdge)]_vars

C11_Witness ==
    /\ Returned
    /\ last_call.op = "compute_pagerank"
    /\ num_nodes = 3
    /\ EdgeCount(adj) = 1
    /\ result.iterations > 1

\* The first n entries of the product of the matrix g with the vector v:
\* entry row is the sum over col of g[row][col] * v[col].
RECURSIVE Product(_, _, _)
Product(g, v, n) ==
    IF n = 0 THEN << >>
    ELSE Append(Product(g, v, n - 1), RowTimes(g, v, n, num_nodes))

\* The value compute_pagerank returns when its for loop is entered at pass k
\* with previous vector ro, for the matrix g.
RECURSIVE PowerIteration(_, _, _, _)
PowerIteration(g, ro, rn, k) ==
    IF k >= MAX_ITER
    THEN PageRankResult(rn, k)
    ELSE CHOOSE value \in {
             IF RatLess(DifferenceUpTo(ro, fresh, num_nodes), EPSILON)
             THEN PageRankResult(fresh, k + 1)
             ELSE PowerIteration(g, fresh, fresh, k + 1) :
             fresh \in {Product(g, ro, num_nodes)} } : TRUE

\* What compute_pagerank returns for the graph as it is now, from nothing
\* but num_nodes and adj.
ValueForGraph ==
    PowerIteration(build_google_matrix,
                   [k \in 1..num_nodes |-> RatOf(1, num_nodes)],
                   [k \in 1..num_nodes |-> RatZero], 0)

\* C12: the value compute_pagerank returns is a function of the graph at the
\* time of the call alone: whatever calls came before (earlier computations,
\* mutations), the returned vector and iteration count are the ones a
\* computation from the current node count and adjacency matrix gives.
C12_ResultIsFunctionOfGraph ==
    Returned => result = ValueForGraph

C12_Witness ==
    /\ Returned
    /\ num_nodes = 2
    /\ EdgeCount(adj) = 1
    /\ result.iterations > 1
    /\ result = ValueForGraph

\* The score compute_pagerank returned for the node of label lbl.
ScoreOf(lbl) == result.pagerank_vector[node_to_index[lbl] + 1]

\* C13: on the star graph A -> B, A -> C, A -> D, A -> E the scores
\* returned for B, C, D and E are equal and each is strictly greater than
\* the score of A.
C13_StarLeavesOutrankHub ==
    (Returned /\ IsStar) =>
        /\ \A leaf \in StarLeaves : RatEq(ScoreOf(leaf), ScoreOf("B"))
        /\ \A leaf \in StarLeaves : RatLess(ScoreOf("A"), ScoreOf(leaf))

C13_Witness ==
    /\ Returned
    /\ IsStar
    /\ node_to_index["A"] = 2
    /\ RatLess(ScoreOf("A"), ScoreOf("E"))

\* The graph is the 3-cycle A -> B, B -> C, C -> A and nothing else.
IsCycle ==
    /\ num_nodes = 3
    /\ HasEdge("A", "B") /\ HasEdge("B", "C") /\ HasEdge("C", "A")
    /\ EdgeCount(adj) = 3

AllEqualTo(v, q) == \A k \in DOMAIN v : RatEq(v[k], q)

\* C14: on the cycle A -> B, B -> C, C -> A every vector of the iteration
\* is the uniform one, the returned scores are all 1/3, and the loop is left
\* by the convergence test after fewer than MAX_ITER iterations.
C14_CycleIsUniform ==
    IsCycle =>
        /\ (pc \in {"loop", "break"}) =>
              /\ Len(r_old) = 3 /\ AllEqualTo(r_old, RatOf(1, 3))
              /\ i < MAX_ITER
        /\ (pc = "break") => AllEqualTo(r_new, RatOf(1, 3))
        /\ Returned =>
              /\ Len(result.pagerank_vector) = 3
              /\ AllEqualTo(result.pagerank_vector, RatOf(1, 3))
              /\ result.iterations < MAX_ITER

C14_Witness ==
    /\ IsCycle
    /\ Returned
    /\ result.iterations = 1

\* C15: on a graph of one node without edges the first pass finds an L1
\* difference of 0, the loop is left after that one pass, and the score
\* returned is exactly 1.
C15_SingleNode ==
    (num_nodes = 1 /\ EdgeCount(adj) = 0) =>
        /\ (pc = "loop") => i = 0
        /\ (pc = "break") =>
              /\ i = 0
              /\ RatEq(L1Distance(r_old, r_new), RatZero)
        /\ Returned =>
              /\ result.iterations = 1
              /\ Len(result.pagerank_vector) = 1
              /\ RatEq(result.pagerank_vector[1], RatOne)

C15_Witness ==
    /\ num_nodes = 1
    /\ EdgeCount(adj) = 0
    /\ Returned
    /\ result.iterations = 1
    /\ RatEq(result.pagerank_vector[1], RatOne)

\* A call of compute_pagerank is in progress: its matrices have been built
\* from the graph as it is.
Computing == pc \in {"loop", "break"}

\* The out-degree of the node of index k (1-based here, k - 1 in the code).
OutDegree(k) == SumInts(adj[k])

\* C16 as stated: for every node row of out-degree d > 0 and every node col,
\* the entry [row][col] of the matrix build_transition_matrix returns is
\* adj[row][col] / d (first index the source, second the destination).
C16_SourceIndexedFirst ==
    Computing =>
        \A row \in 1..num_nodes, col \in 1..num_nodes :
            OutDegree(row) > 0 =>
                RatEq(build_transition_matrix[row][col],
                      RatOf(adj[row][col], OutDegree(row)))

\* C16 amended: for every node row of out-degree d > 0 and every node col,
\* the entry [col][row] of the matrix build_transition_matrix returns is
\* adj[row][col] / d (first index the destination, second the source).
C16_DestinationIndexedFirst ==
    Computing =>
        \A row \in 1..num_nodes, col \in 1..num_nodes :
            OutDegree(row) > 0 =>
                RatEq(build_transition_matrix[col][row],
                      RatOf(adj[row][col], OutDegree(row)))

C16_Witness ==
    /\ Computing
    /\ num_nodes = 3
    /\ \E row \in 1..3, col \in 1..3 :
          /\ adj[row][col] = 1 /\ adj[col][row] = 0
          /\ OutDegree(row) = 2
          /\ RatEq(build_transition_matrix[col][row], RatOf(1, 2))
          /\ RatEq(build_transition_matrix[row][col], RatOf(1, 3))

\* C17 as stated: for every node k of out-degree 0, every entry of row k of
\* the transition matrix is 1/N.
C17_DanglingRowUniform ==
    Computing =>
        \A k \in 1..num_nodes, col \in 1..num_nodes :
            OutDegree(k) = 0 =>
                RatEq(build_transition_matrix[k][col], RatOf(1, num_nodes))

\* C17 amended: for every node k of out-degree 0, every entry of column k
\* of the transition matrix (the entries [row][k]) is 1/N.
C17_DanglingColumnUniform ==
    Computing =>
        \A k \in 1..num_nodes, row \in 1..num_nodes :
            OutDegree(k) = 0 =>
                RatEq(build_transition_matrix[row][k], RatOf(1, num_nodes))

C17_Witness ==
    /\ Computing
    /\ num_nodes = 3
    /\ Known("C")
    /\ OutDegree(node_to_index["C"] + 1) = 0
    /\ \E k \in 1..3 : OutDegree(k) > 0
    /\ \A row \in 1..3 :
          RatEq(build_transition_matrix[row][node_to_index["C"] + 1], RatOf(1, 3))

\* Row and column k of a square matrix, as vectors.
RowOf(m, k) == m[k]
ColumnOf(m, k) == [row \in 1..Len(m) |-> m[row][k]]

\* The sum over k of u[k] * v[k].
RECURSIVE DotProduct(_, _)
DotProduct(u, v) ==
    IF u = << >> THEN RatZero
    ELSE RatAdd(RatMul(Head(u), Head(v)), DotProduct(Tail(u), Tail(v)))

\* When the loop is left by its break, r_new is the product of the Google
\* matrix with r_old: r_new[row] = sum over col of G[row][col] * r_old[col].
MultipliesRowsByVector ==
    (pc = "break") =>
        \A row \in 1..num_nodes :
            RatEq(r_new[row], DotProduct(RowOf(google_matrix, row), r_old))

\* C18 as stated: for N >= 1 every row of the Google matrix and of the
\* transition matrix sums to 1, and r_new[row] is the sum over col of
\* G[row][col] * r_old[col].
C18_RowStochastic ==
    (Computing /\ num_nodes >= 1) =>
        /\ \A row \in 1..num_nodes :
              /\ RatEq(SumVector(RowOf(google_matrix, row)), RatOne)
              /\ RatEq(SumVector(RowOf(build_transition_matrix, row)), RatOne)
        /\ MultipliesRowsByVector

\* C18 amended: for N >= 1 every column of the Google matrix and of the
\* transition matrix sums to 1 (the matrices are column-stochastic), and
\* r_new[row] is the sum over col of G[row][col] * r_old[col].
C18_ColumnStochastic ==
    (Computing /\ num_nodes >= 1) =>
        /\ \A col \in 1..num_nodes :
              /\ RatEq(SumVector(ColumnOf(google_matrix, col)), RatOne)
              /\ RatEq(SumVector(ColumnOf(build_transition_matrix, col)), RatOne)
        /\ MultipliesRowsByVector

C18_Witness ==
    /\ pc = "break"
    /\ num_nodes = 3
    /\ i > 5
    /\ \E row \in 1..3 : ~RatEq(SumVector(RowOf(google_matrix, row)), RatOne)
    /\ \A col \in 1..3 : RatEq(SumVector(ColumnOf(google_matrix, col)), RatOne)

\* C19: for N >= 1 every entry of the teleportation matrix is 1/N and the
\* Google matrix the solver holds is, entry by entry at the same indices,
\* 3/4 of the transition matrix plus 1/4 of 1/N.
C19_GoogleMatrixBlend ==
    (Computing /\ num_nodes >= 1) =>
        \A row \in 1..num_nodes, col \in 1..num_nodes :
            /\ RatEq(build_teleportation_matrix[row][col], RatOf(1, num_nodes))
            /\ RatEq(google_matrix[row][col],
                     RatAdd(RatMul(RatOf(3, 4), build_transition_matrix[row][col]),
                            RatMul(RatOf(1, 4), RatOf(1, num_nodes))))

C19_Witness ==
    /\ Computing
    /\ num_nodes = 3
    /\ EdgeCount(adj) = 3
    /\ \E row \in 1..3, col \in 1..3 :
          /\ ~RatEq(build_transition_matrix[row][col], build_transition_matrix[col][row])
          /\ RatEq(google_matrix[row][col], RatOf(5, 6))

\* C20: compute_pagerank enters its loop with r_old uniform 1/N and pass
\* count 0; every pass computes r_new from the r_old of before the pass and
\* measures the distance of these two; only when that distance is not below
\* EPSILON is r_old replaced by r_new for the next pass, otherwise the loop
\* is left with r_old as it was. The first distance is therefore the one
\* between the uniform vector and the Google matrix applied to it.
C20_ComparesWithPreviousVector ==
    [][/\ (pc = "idle" /\ pc' = "loop") =>
             /\ Len(r_old') = num_nodes
             /\ AllEqualTo(r_old', RatOf(1, num_nodes))
             /\ i' = 0
       /\ (pc = "loop" /\ i = 0) => AllEqualTo(r_old, RatOf(1, num_nodes))
       /\ (pc = "loop" /\ pc' \in {"loop", "break"}) =>
             /\ \A row \in 1..num_nodes :
                   RatEq(r_new'[row], DotProduct(RowOf(google_matrix, row), r_old))
             /\ IF RatLess(L1Distance(r_old, r_new'), EPSILON)
                THEN pc' = "break" /\ r_old' = r_old /\ i' = i
                ELSE pc' = "loop" /\ r_old' = r_new' /\ i' = i + 1]_vars

C20_Witness ==
    /\ pc = "loop"
    /\ i = 1
    /\ num_nodes = 2
    /\ r_old = r_new
    /\ ~AllEqualTo(r_old, RatOf(1, 2))

\* C21: across every call of add_node, add_edge and compute_pagerank the
\* node count never decreases, a label that has an index keeps that index,
\* and an adjacency entry that is 1 stays 1.
C21_GraphStoreAppendOnly ==
    [][/\ num_nodes' >= num_nodes
       /\ \A lbl \in DOMAIN node_to_index :
             /\ lbl \in DOMAIN node_to_index'
             /\ node_to_index'[lbl] = node_to_index[lbl]
       /\ \A row \in 1..num_nodes, col \in 1..num_nodes :
             adj[row][col] = 1 => adj'[row][col] = 1]_vars

C21_Witness ==
    /\ last_call.op = "add_edge"
    /\ last_call.found
    /\ HasEdge(last_call.a, last_call.b)
    /\ num_nodes = 3
    /\ EdgeCount(adj) = 3
    /\ node_to_index["C"] = 0
    /\ node_to_index["A"] = 2

\* The only outgoing edge of the node of index k is the edge to itself.
OnlySelfLoop(k) ==
    /\ adj[k][k] = 1
    /\ \A col \in 1..num_nodes : col # k => adj[k][col] = 0

\* C22: a node whose only outgoing edge is a self-loop has out-degree 1 and
\* is not treated as dangling: its transition probability (the entries
\* [col][k] of the stored matrix) is 1 to itself and 0 to every other node.
C22_SelfLoopIsNotDangling ==
    Computing =>
        \A k \in 1..num_nodes :
            OnlySelfLoop(k) =>
                /\ compute_out_degrees[k] = 1
                /\ \A col \in 1..num_nodes :
                      RatEq(build_transition_matrix[col][k],
                            IF col = k THEN RatOne ELSE RatZero)

C22_Witness ==
    /\ Computing
    /\ num_nodes = 3
    /\ \E k \in 1..3, other \in 1..3 :
          /\ OnlySelfLoop(k)
          /\ OutDegree(other) = 0
          /\ RatEq(build_transition_matrix[k][k], RatOne)
          /\ RatEq(build_transition_matrix[other][k], RatZero)
          /\ RatEq(build_transition_matrix[k][other], RatOf(1, 3))

====
